---- MODULE Spec2Model ----
(***************************************************************************)
(* Model of the catechism converters in .github/scripts: the LaTeX answer  *)
(* pipeline (answer/__init__.py, toml_to_latex.py) and the Markdown        *)
(* pipeline (toml_to_markdown.py).                                         *)
(*                                                                         *)
(* A Python str is a sequence of one-character strings, so that regular    *)
(* expressions, strip(), replace() and split() are computed character by   *)
(* character.  Rendered output is kept as a sequence of pieces, one per    *)
(* f-string fragment appended by the code; Flat(pieces) is the str the     *)
(* code builds.                                                            *)
(***************************************************************************)
EXTENDS Integers, Sequences, FiniteSets, TLC

VARIABLES
    loaded,        \* the Question as parse_question_data built it
    question,      \* the Question object the LaTeX script holds (mutable)
    arg,           \* question.sections as they were when process_answer was last called
    mode,          \* branch process_answer took: "none" before the first call
    latex,         \* pieces of the str process_answer returned
    footnotes,     \* List[Footnote] process_answer returned
    md_mode,       \* branch format_question took
    markdown,      \* pieces of the str format_question returned
    md_footnotes,  \* footnotes format_question handed to format_footnotes
    file_paths,    \* files process_files has still to load
    all_questions, \* the dict process_files fills, in insertion order
    history,       \* every record loaded so far, in load order
    pc,            \* position of process_files / generate_latex
    result,        \* what sort_questions returned
    tex_order,     \* the order generate_latex iterates in
    verses_in,     \* argument of create_bible_url
    url            \* str create_bible_url returned

vars == <<loaded, question, arg, mode, latex, footnotes, md_mode, markdown,
          md_footnotes, file_paths, all_questions, history, pc, result,
          tex_order, verses_in, url>>

renderVars == <<loaded, question, arg, mode, latex, footnotes, md_mode,
                markdown, md_footnotes>>
fileVars == <<file_paths, all_questions, history, pc, result, tex_order>>
urlVars == <<verses_in, url>>

(***************************************************************************)
(* Bounds of the model.                                                    *)
(***************************************************************************)
MaxSections == 4
MaxFiles == 3
MaxVerseLen == 3
MaxTableRefs == 7
MaxHierSections == 5

(***************************************************************************)
(* str primitives.                                                         *)
(***************************************************************************)
Whitespace == {" ", "\t", "\n"}
Digits == {"0", "1", "2", "3", "4", "5", "6", "7", "8", "9"}

DigitVal(c) ==
    CASE c = "0" -> 0 [] c = "1" -> 1 [] c = "2" -> 2 [] c = "3" -> 3
      [] c = "4" -> 4 [] c = "5" -> 5 [] c = "6" -> 6 [] c = "7" -> 7
      [] c = "8" -> 8 [] c = "9" -> 9

DigitChar(d) == <<"0", "1", "2", "3", "4", "5", "6", "7", "8", "9">>[d + 1]

Min(S) == CHOOSE x \in S : \A y \in S : x <= y

\* Length of the longest run of characters of S in s that starts at index i.
SpanFrom(s, i, S) ==
    IF i > Len(s) THEN 0
    ELSE LET stops == {j \in i..Len(s) : s[j] \notin S}
         IN IF stops = {} THEN Len(s) - i + 1 ELSE Min(stops) - i

RECURSIVE SpanBack(_, _)
SpanBack(s, S) ==
    IF s = <<>> \/ s[Len(s)] \notin S THEN 0
    ELSE 1 + SpanBack(SubSeq(s, 1, Len(s) - 1), S)

\* str.strip()
Strip(s) ==
    LET a == SpanFrom(s, 1, Whitespace)
        t == SubSeq(s, a + 1, Len(s))
    IN SubSeq(t, 1, Len(t) - SpanBack(t, Whitespace))

StartsWithAt(s, i, p) ==
    /\ i >= 1
    /\ i + Len(p) - 1 <= Len(s)
    /\ SubSeq(s, i, i + Len(p) - 1) = p

\* Index of the first occurrence of p in s, 0 when there is none (p in s).
Find(s, p) ==
    LET hits == {i \in 1..Len(s) : StartsWithAt(s, i, p)}
    IN IF hits = {} THEN 0 ELSE Min(hits)

\* s.split(p)[0]
SplitHead(s, p) ==
    IF Find(s, p) = 0 THEN s ELSE SubSeq(s, 1, Find(s, p) - 1)

\* s.replace(old, new) for a non-empty old: every occurrence, left to right.
RECURSIVE Replace(_, _, _)
Replace(s, old, new) ==
    IF Len(s) < Len(old) THEN s
    ELSE IF StartsWithAt(s, 1, old)
         THEN new \o Replace(SubSeq(s, Len(old) + 1, Len(s)), old, new)
         ELSE <<Head(s)>> \o Replace(Tail(s), old, new)

\* int(digits)
RECURSIVE StrToNat(_)
StrToNat(s) ==
    IF s = <<>> THEN 0
    ELSE 10 * StrToNat(SubSeq(s, 1, Len(s) - 1)) + DigitVal(s[Len(s)])

\* str(n) for n >= 0
RECURSIVE NatToStr(_)
NatToStr(n) ==
    IF n < 10 THEN <<DigitChar(n)>>
    ELSE NatToStr(n \div 10) \o <<DigitChar(n % 10)>>

\* '.' of a regular expression does not match a newline: the match of (.*)
UpToNewline(s) ==
    LET nl == {j \in 1..Len(s) : s[j] = "\n"}
    IN IF nl = {} THEN s ELSE SubSeq(s, 1, Min(nl) - 1)

(***************************************************************************)
(* Rendered text: pieces in output order.  sec is the index in             *)
(* question.sections of the Section object the piece was rendered from     *)
(* (0 for fixed text), kind is "text", "intro", "mark" or "lit".           *)
(***************************************************************************)
Piece(sec, kind, s) == [sec |-> sec, kind |-> kind, s |-> s]
Lit(s) == Piece(0, "lit", s)

RECURSIVE Flat(_)
Flat(pieces) ==
    IF pieces = <<>> THEN <<>> ELSE Head(pieces).s \o Flat(Tail(pieces))

RECURSIVE RStripPieces(_)
RStripPieces(p) ==
    IF p = <<>> THEN <<>>
    ELSE LET last == p[Len(p)]
             init == SubSeq(p, 1, Len(p) - 1)
             s == SubSeq(last.s, 1, Len(last.s) - SpanBack(last.s, Whitespace))
         IN IF s = <<>> THEN RStripPieces(init)
            ELSE Append(init, [last EXCEPT !.s = s])

RECURSIVE LStripPieces(_)
LStripPieces(p) ==
    IF p = <<>> THEN <<>>
    ELSE LET first == Head(p)
             s == SubSeq(first.s, SpanFrom(first.s, 1, Whitespace) + 1, Len(first.s))
         IN IF s = <<>> THEN LStripPieces(Tail(p))
            ELSE <<[first EXCEPT !.s = s]>> \o Tail(p)

\* str.strip() of the text the pieces spell
StripPieces(p) == RStripPieces(LStripPieces(p))

\* f"$^{{{footnote_counter}}}$"
Marker(n) == <<"$", "^", "{">> \o NatToStr(n) \o <<"}", "$">>

Footnote(number, verses) == [number |-> number, verses |-> verses]

(***************************************************************************)
(* Section patterns.                                                       *)
(***************************************************************************)
FromWord == <<"F", "r", "o", "m">>
HarmfulMarker ==
    <<"S", "i", "n", "s", " ", "b", "e", "c", "o", "m", "e", " ", "m", "o",
      "r", "e", " ", "h", "a", "r", "m", "f", "u", "l", ":">>

\* re.match(r'^(\d+)\.\s+From\s+(.*)', text): ok, int(group(1)), group(2)
HierMatch(text) ==
    LET d == SpanFrom(text, 1, Digits)
        w1 == SpanFrom(text, d + 2, Whitespace)
        f == d + 2 + w1
        w2 == SpanFrom(text, f + 4, Whitespace)
        ok == /\ d >= 1
              /\ d + 1 <= Len(text)
              /\ text[d + 1] = "."
              /\ w1 >= 1
              /\ StartsWithAt(text, f, FromWord)
              /\ w2 >= 1
    IN [ok |-> ok,
        num |-> IF ok THEN StrToNat(SubSeq(text, 1, d)) ELSE 0,
        rest |-> IF ok THEN UpToNewline(SubSeq(text, f + 4 + w2, Len(text)))
                 ELSE <<>>]

\* re.compile(r'^(\d+)\.\s').match(text)
is_enumerated_list_item(text) ==
    LET d == SpanFrom(text, 1, Digits)
    IN /\ d >= 1
       /\ d + 2 <= Len(text)
       /\ text[d + 1] = "."
       /\ text[d + 2] \in Whitespace

\* match.group(1) of the same pattern, None (here <<>>) without a match
get_list_item_number(text) ==
    IF is_enumerated_list_item(text)
    THEN SubSeq(text, 1, SpanFrom(text, 1, Digits))
    ELSE <<>>

\* list_item_pattern.sub('', text)
strip_list_item_number(text) ==
    IF is_enumerated_list_item(text)
    THEN SubSeq(text, SpanFrom(text, 1, Digits) + 3, Len(text))
    ELSE text

\* shared.utils: a bracketed list marker "[n] " at the start of the text
is_bracketed_list_item(text) ==
    LET d == SpanFrom(text, 2, Digits)
    IN /\ Len(text) >= 1
       /\ text[1] = "["
       /\ d >= 1
       /\ d + 3 <= Len(text)
       /\ text[d + 2] = "]"
       /\ text[d + 3] \in Whitespace

\* shared.utils: the list prefix of either kind removed
strip_list_item_number_tex(text) ==
    IF is_enumerated_list_item(text) THEN strip_list_item_number(text)
    ELSE IF is_bracketed_list_item(text)
         THEN SubSeq(text, SpanFrom(text, 2, Digits) + 4, Len(text))
         ELSE text

\* shared.utils: three or more non-empty sections are list items
detect_list_sections(sections) ==
    Cardinality({i \in 1..Len(sections) :
        /\ sections[i].text # <<>>
        /\ \/ is_enumerated_list_item(sections[i].text)
           \/ is_bracketed_list_item(sections[i].text)}) >= 3

\* shared.utils: the LaTeX special characters, each escaped with a backslash
LatexSpecial == {"\\", "$", "&", "%", "#", "_", "{", "}", "~", "^"}

RECURSIVE escape_latex(_)
escape_latex(text) ==
    IF text = <<>> THEN <<>>
    ELSE (IF Head(text) \in LatexSpecial THEN <<"\\", Head(text)>>
          ELSE <<Head(text)>>) \o escape_latex(Tail(text))

\* The Section objects of a list, each with the index that identifies it.
Refs(sections) ==
    [i \in 1..Len(sections) |->
        [ref |-> i, text |-> sections[i].text, verses |-> sections[i].verses]]

(***************************************************************************)
(* answer/__init__.py                                                      *)
(***************************************************************************)
\* footnote_counter = 1
FirstFootnote == 1

\* HasText without the test: no section is skipped.
HasTextAlways(section) == TRUE

\* "if not section.text: continue" lets these sections through
HasText(section) == section.text # <<>>

\* HasVerses without the test: every section gets a footnote.
HasVersesAlways(section) == TRUE

\* if section.verses:
HasVerses(section) == section.verses # <<>>

detect_hierarchical_answer(sections) ==
    Cardinality({i \in 1..Len(sections) :
        HasText(sections[i]) /\ HierMatch(sections[i].text).ok}) >= 3

\* The for loop of process_regular_answer over Section objects secs, from
\* index i on, with the latex, footnotes and footnote_counter built so far.
RECURSIVE RegularLoop(_, _, _, _, _)
RegularLoop(secs, i, out, notes, counter) ==
    IF i > Len(secs) THEN [latex |-> out, footnotes |-> notes]
    ELSE LET section == secs[i]
             escaped_text == escape_latex(section.text)
         IN IF ~HasText(section)
            THEN RegularLoop(secs, i + 1, out, notes, counter)
            ELSE IF HasVerses(section)
            THEN RegularLoop(secs, i + 1,
                     out \o <<Piece(section.ref, "text", escaped_text),
                              Piece(section.ref, "mark", Marker(counter)),
                              Lit(<<" ">>)>>,
                     Append(notes, Footnote(counter, section.verses)),
                     counter + 1)
            ELSE RegularLoop(secs, i + 1,
                     out \o <<Piece(section.ref, "text", escaped_text),
                              Lit(<<" ">>)>>,
                     notes, counter)

\* return latex.strip(), footnotes
Stripped(r) == [latex |-> StripPieces(r.latex), footnotes |-> r.footnotes]

process_regular_answer(secs) ==
    Stripped(RegularLoop(secs, 1, <<Lit(<<"A", ":", " ">>)>>, <<>>, FirstFootnote))

\* Index of the first section with text containing the marker, 0 if none.
HarmfulIndex(sections) ==
    LET hits == {i \in 1..Len(sections) :
                    /\ HasText(sections[i])
                    /\ Find(sections[i].text, HarmfulMarker) # 0}
    IN IF hits = {} THEN 0 ELSE Min(hits)

\* section.text.split("Sins become more harmful:")[0] + "Sins become more harmful:"
IntroText(text) == SplitHead(text, HarmfulMarker) \o HarmfulMarker

\* The intro cut out of every section that holds the marker (no break).
StripIntroEverywhere(sections, i) ==
    [k \in 1..Len(sections) |->
        IF i # 0 /\ HasText(sections[k]) /\ Find(sections[k].text, HarmfulMarker) # 0
        THEN [sections[k] EXCEPT !.text =
                 Strip(Replace(sections[k].text, IntroText(sections[k].text), <<>>))]
        ELSE sections[k]]

\* sections after sections[i].text = section.text.replace(intro_text, "").strip()
StripIntro(sections, i) ==
    IF i = 0 THEN sections
    ELSE [sections EXCEPT ![i].text =
             Strip(Replace(sections[i].text, IntroText(sections[i].text), <<>>))]

\* The inner loop over j: the next section with text is a numbered section.
new_section_coming(secs, i) ==
    LET later == {j \in (i + 1)..Len(secs) : HasText(secs[j])}
    IN later # {} /\ HierMatch(secs[Min(later)].text).ok

\* The third loop of process_hierarchical_answer.
RECURSIVE HierLoop(_, _, _, _, _)
HierLoop(secs, i, out, notes, counter) ==
    IF i > Len(secs) THEN [latex |-> out, footnotes |-> notes]
    ELSE LET section == secs[i]
             m == HierMatch(section.text)
             body == IF m.ok
                     THEN <<Piece(section.ref, "text",
                                  NatToStr(m.num) \o <<".", " ">> \o m.rest)>>
                     ELSE <<Piece(section.ref, "text", escape_latex(section.text))>>
             note == IF HasVerses(section)
                     THEN <<Piece(section.ref, "mark", Marker(counter)), Lit(<<" ">>)>>
                     ELSE <<Lit(<<" ">>)>>
             gap == IF new_section_coming(secs, i) THEN <<Lit(<<"\n", "\n">>)>>
                    ELSE <<>>
         IN IF ~HasText(section)
            THEN HierLoop(secs, i + 1, out, notes, counter)
            ELSE HierLoop(secs, i + 1, out \o body \o note \o gap,
                     IF HasVerses(section)
                     THEN Append(notes, Footnote(counter, section.verses))
                     ELSE notes,
                     IF HasVerses(section) THEN counter + 1 ELSE counter)

\* latex after "Start with the intro": intro_text is set when i > 0
HierStart(sections, i) ==
    <<Lit(<<"A", ":", " ">>)>>
    \o (IF i = 0 THEN <<>>
        ELSE <<Piece(i, "intro", IntroText(sections[i].text)),
               Lit(<<"\n", "\n">>)>>)

\* return latex.strip(), footnotes; after is what the call left in sections
HierResult(r, after) ==
    [latex |-> StripPieces(r.latex), footnotes |-> r.footnotes, sections |-> after]

HierBody(start, after) ==
    HierResult(HierLoop(Refs(after), 1, start, <<>>, FirstFootnote), after)

HierFrom(sections, i) == HierBody(HierStart(sections, i), StripIntro(sections, i))

\* Returns the latex, the footnotes and the sections as the call leaves them.
process_hierarchical_answer(sections) == HierFrom(sections, HarmfulIndex(sections))

IsListRef(section) ==
    is_enumerated_list_item(section.text) \/ is_bracketed_list_item(section.text)
IsListSection(section) == HasText(section) /\ IsListRef(section)
IsRegularSection(section) == HasText(section) /\ ~IsListRef(section)

BeginEnumerate ==
    <<"\\", "b", "e", "g", "i", "n", "{", "e", "n", "u", "m", "e", "r", "a",
      "t", "e", "}", "\n">>
EndEnumerate ==
    <<"\\", "e", "n", "d", "{", "e", "n", "u", "m", "e", "r", "a", "t", "e", "}">>
ItemStart == <<"\\", "i", "t", "e", "m", " ">>

\* The loop over list_sections of process_list_answer.
RECURSIVE ListLoop(_, _, _, _, _)
ListLoop(secs, i, out, notes, counter) ==
    IF i > Len(secs) THEN [latex |-> out, footnotes |-> notes]
    ELSE LET section == secs[i]
             escaped_text == escape_latex(strip_list_item_number_tex(section.text))
             item == <<Lit(ItemStart), Piece(section.ref, "text", escaped_text)>>
         IN IF HasVerses(section)
            THEN ListLoop(secs, i + 1,
                     out \o item \o <<Piece(section.ref, "mark", Marker(counter)),
                                      Lit(<<"\n">>)>>,
                     Append(notes, Footnote(counter, section.verses)),
                     counter + 1)
            ELSE ListLoop(secs, i + 1, out \o item \o <<Lit(<<"\n">>)>>,
                     notes, counter)

\* ListFirstFootnote with the counter started again for the list items.
ListFirstFootnoteRestart(intro_footnotes) == 1

\* footnote_counter = len(footnotes) + 1
ListFirstFootnote(intro_footnotes) == Len(intro_footnotes) + 1

\* list_latex += "\\end{enumerate}"; full_latex = intro_latex + list_latex
CloseEnumerate(r) ==
    [latex |-> r.latex \o <<Lit(EndEnumerate)>>, footnotes |-> r.footnotes]

ListFrom(list_sections, intro) ==
    IF list_sections # <<>>
    THEN CloseEnumerate(
             ListLoop(list_sections, 1,
                 intro.latex
                 \o (IF intro.latex # <<>> THEN <<Lit(<<"\n", "\n">>)>> ELSE <<>>)
                 \o <<Lit(BeginEnumerate)>>,
                 intro.footnotes, ListFirstFootnote(intro.footnotes)))
    ELSE intro

process_list_answer(sections) ==
    ListFrom(SelectSeq(Refs(sections), IsListSection),
             process_regular_answer(SelectSeq(Refs(sections), IsRegularSection)))

\* The result of one branch, with the mode and the sections it leaves.
Rendered(m, sections, r) ==
    [mode |-> m, latex |-> r.latex, footnotes |-> r.footnotes,
     sections |-> sections]

HierRendered(r) == Rendered("hierarchical", r.sections, r)

\* process_answer with the list test made before the hierarchical test.
process_answer_list_first(sections) ==
    IF detect_list_sections(sections)
    THEN Rendered("list", sections, process_list_answer(sections))
    ELSE IF detect_hierarchical_answer(sections)
    THEN HierRendered(process_hierarchical_answer(sections))
    ELSE Rendered("plain", sections, process_regular_answer(Refs(sections)))

process_answer(sections) ==
    IF detect_hierarchical_answer(sections)
    THEN HierRendered(process_hierarchical_answer(sections))
    ELSE IF detect_list_sections(sections)
    THEN Rendered("list", sections, process_list_answer(sections))
    ELSE Rendered("plain", sections, process_regular_answer(Refs(sections)))

(***************************************************************************)
(* toml_to_markdown.py                                                     *)
(***************************************************************************)
\* "if not section.text" in the Markdown script
MdHasText(section) == section.text # <<>>

\* if section.verses:
MdHasVerses(section) == section.verses # <<>>

\* footnote_counter = 1
MdFirstFootnote == 1

\* MdListFirstFootnote with the counter started again for the list items.
MdListFirstFootnoteRestart(intro_footnotes) == 1

\* footnote_counter = len(intro_footnotes) + 1
MdListFirstFootnote(intro_footnotes) == Len(intro_footnotes) + 1

\* should_format_as_enumerated_list with "> 3" for ">= 3".
should_format_more_than_three(sections) ==
    Len(SelectSeq(SelectSeq(sections, MdHasText),
                  LAMBDA section : is_enumerated_list_item(section.text))) > 3

should_format_as_enumerated_list(sections) ==
    LET non_empty_sections == SelectSeq(sections, MdHasText)
        IsEnum(section) == is_enumerated_list_item(section.text)
    IN IF non_empty_sections = <<>> THEN FALSE
       ELSE Len(SelectSeq(non_empty_sections, IsEnum)) >= 3

UrlPrefix ==
    <<"h", "t", "t", "p", "s", ":", "/", "/", "w", "w", "w", ".", "b", "i",
      "b", "l", "e", "g", "a", "t", "e", "w", "a", "y", ".", "c", "o", "m",
      "/", "p", "a", "s", "s", "a", "g", "e", "/", "?", "s", "e", "a", "r",
      "c", "h", "=">>
UrlSuffix == <<"&", "v", "e", "r", "s", "i", "o", "n", "=", "E", "S", "V">>

\* encoded_verses without the last replace.
encoded_verses_no_comma(verses) ==
    Replace(Replace(Replace(verses, <<" ">>, <<"+">>),
                    <<":">>, <<"%", "3", "A">>),
            <<";">>, <<"%", "3", "B">>)

\* verses.replace(' ', '+').replace(':', '%3A').replace(';', '%3B').replace(',', '%2C')
encoded_verses(verses) ==
    Replace(Replace(Replace(Replace(verses, <<" ">>, <<"+">>),
                            <<":">>, <<"%", "3", "A">>),
                    <<";">>, <<"%", "3", "B">>),
            <<",">>, <<"%", "2", "C">>)

create_bible_url(verses) == UrlPrefix \o encoded_verses(verses) \o UrlSuffix

\* f"{footnote.number}. [{footnote.verses}]({bible_url})\n" per footnote
RECURSIVE format_footnotes(_)
format_footnotes(notes) ==
    IF notes = <<>> THEN <<>>
    ELSE (IF Head(notes).verses # <<>>
          THEN <<Piece(0, "ref",
                       NatToStr(Head(notes).number) \o <<".", " ", "[">>
                       \o Head(notes).verses \o <<"]", "(">>
                       \o create_bible_url(Head(notes).verses)
                       \o <<")", "\n">>)>>
          ELSE <<>>) \o format_footnotes(Tail(notes))

\* The for loop shared by format_regular_sections and format_non_list_items,
\* over the sections their continue statements let through.
RECURSIVE MdTextLoop(_, _, _, _, _)
MdTextLoop(secs, i, out, notes, counter) ==
    IF i > Len(secs) THEN [text |-> out, footnotes |-> notes]
    ELSE LET section == secs[i]
         IN IF MdHasVerses(section)
            THEN MdTextLoop(secs, i + 1,
                     out \o <<Piece(section.ref, "text", section.text),
                              Piece(section.ref, "mark", Marker(counter)),
                              Lit(<<" ">>)>>,
                     Append(notes, Footnote(counter, section.verses)),
                     counter + 1)
            ELSE MdTextLoop(secs, i + 1,
                     out \o <<Piece(section.ref, "text", section.text),
                              Lit(<<" ">>)>>,
                     notes, counter)

\* return full_text.strip(), footnotes
MdStripped(r) == [text |-> StripPieces(r.text), footnotes |-> r.footnotes]

format_regular_sections(sections) ==
    MdStripped(MdTextLoop(SelectSeq(Refs(sections), MdHasText), 1, <<>>, <<>>,
                          MdFirstFootnote))

IsMdItem(section) == MdHasText(section) /\ is_enumerated_list_item(section.text)
IsMdIntro(section) == MdHasText(section) /\ ~is_enumerated_list_item(section.text)

format_non_list_items(sections) ==
    MdStripped(MdTextLoop(SelectSeq(Refs(sections), IsMdIntro), 1, <<>>, <<>>,
                          MdFirstFootnote))

\* The loop of format_enumerated_list over the list items.
RECURSIVE MdListLoop(_, _, _, _, _)
MdListLoop(secs, i, out, notes, counter) ==
    IF i > Len(secs) THEN [text |-> out, footnotes |-> notes]
    ELSE LET section == secs[i]
             num == get_list_item_number(section.text)
             text == strip_list_item_number(section.text)
             sep == IF i > 1 THEN <<Lit(<<"\n">>)>> ELSE <<>>
             item == <<Piece(section.ref, "text", num \o <<".", " ">> \o text)>>
         IN IF MdHasVerses(section)
            THEN MdListLoop(secs, i + 1,
                     out \o sep \o item
                         \o <<Piece(section.ref, "mark", Marker(counter))>>,
                     Append(notes, Footnote(counter, section.verses)),
                     counter + 1)
            ELSE MdListLoop(secs, i + 1, out \o sep \o item, notes, counter)

\* return intro_text, list_text, intro_footnotes + list_footnotes
EnumeratedResult(intro, r) ==
    [intro_text |-> intro.text, list_text |-> r.text,
     footnotes |-> intro.footnotes \o r.footnotes]

EnumeratedFrom(items, intro) ==
    EnumeratedResult(intro,
        MdListLoop(items, 1, <<>>, <<>>, MdListFirstFootnote(intro.footnotes)))

format_enumerated_list(sections) ==
    EnumeratedFrom(SelectSeq(Refs(sections), IsMdItem), format_non_list_items(sections))

\* markdown = f"# Q. {question.id}: {question.question}\n\n" + "A: "
QuestionHead(q) ==
    <<Lit(<<"#", " ", "Q", ".", " ">> \o q.id \o <<":", " ">> \o q.question
          \o <<"\n", "\n">>),
      Lit(<<"A", ":", " ">>)>>

BlankLine == <<Lit(<<"\n", "\n">>)>>

\* The tail of format_question: the footnotes and the separator.
WithFootnotes(m, body, notes) ==
    [mode |-> m,
     markdown |-> body \o format_footnotes(notes)
                  \o <<Lit(<<"\n", "-", "-", "-", "\n", "\n">>)>>,
     footnotes |-> notes]

ListQuestion(head, l) ==
    WithFootnotes("list",
        head \o (IF l.intro_text # <<>> THEN l.intro_text \o BlankLine ELSE <<>>)
             \o (IF l.list_text # <<>> THEN l.list_text \o BlankLine ELSE <<>>),
        l.footnotes)

PlainQuestion(head, p) ==
    WithFootnotes("plain", head \o p.text \o BlankLine, p.footnotes)

format_question(q) ==
    IF should_format_as_enumerated_list(q.sections)
    THEN ListQuestion(QuestionHead(q), format_enumerated_list(q.sections))
    ELSE PlainQuestion(QuestionHead(q), format_regular_sections(q.sections))

(***************************************************************************)
(* Rendering one question: the inputs and the two scripts' calls.          *)
(***************************************************************************)
T_Plain == <<"1", ".", "&">>
T_Enum == <<"1", ".", " ", "b">>
T_From == <<"2", ".", " ", "F", "r", "o", "m", " ", "c">>
T_Bracket == <<"[", "1", "]", " ", "a">>
T_Harmful == HarmfulMarker

V_John == <<"J", " ", "4", ":", "8">>

Section(text, verses) == [text |-> text, verses |-> verses]

\* The Section values questions are built from (text and verses stripped).
Sections ==
    {Section(<<>>, V_John), Section(T_Plain, <<>>), Section(T_Enum, <<>>),
     Section(T_Enum, V_John), Section(T_From, V_John),
     Section(T_Bracket, V_John), Section(T_Harmful, V_John)}

RECURSIVE SeqsUpTo(_, _)
SeqsUpTo(S, n) ==
    IF n = 0 THEN {<<>>}
    ELSE LET shorter == SeqsUpTo(S, n - 1)
         IN shorter \cup {Append(q, x) : q \in {r \in shorter : Len(r) = n - 1}, x \in S}

Questions ==
    {[id |-> <<"1">>, question |-> <<"Q">>, sections |-> ss] :
        ss \in SeqsUpTo(Sections, MaxSections)}

NoFiles ==
    /\ file_paths = <<>>
    /\ all_questions = <<>>
    /\ history = <<>>
    /\ pc = "off"
    /\ result = <<>>
    /\ tex_order = <<>>

NoUrl ==
    /\ verses_in = <<>>
    /\ url = <<>>

Init ==
    /\ loaded \in Questions
    /\ question = loaded
    /\ arg = <<>>
    /\ mode = "none"
    /\ latex = <<>>
    /\ footnotes = <<>>
    /\ md_mode = "none"
    /\ markdown = <<>>
    /\ md_footnotes = <<>>
    /\ NoFiles
    /\ NoUrl

\* generate_latex: a_latex, footnotes = process_answer(question)
ProcessAnswer ==
    \E r \in {process_answer(question.sections)} :
       /\ arg' = question.sections
       /\ mode' = r.mode
       /\ latex' = r.latex
       /\ footnotes' = r.footnotes
       /\ question' = [question EXCEPT !.sections = r.sections]
       /\ UNCHANGED <<loaded, md_mode, markdown, md_footnotes>>
       /\ UNCHANGED fileVars
       /\ UNCHANGED urlVars

\* generate_markdown: markdown += format_question(question)
FormatQuestion ==
    /\ md_mode = "none"
    /\ \E r \in {format_question(loaded)} :
       /\ md_mode' = r.mode
       /\ markdown' = r.markdown
       /\ md_footnotes' = r.footnotes
       /\ UNCHANGED <<loaded, question, arg, mode, latex, footnotes>>
       /\ UNCHANGED fileVars
       /\ UNCHANGED urlVars

Next ==
    \/ ProcessAnswer
    \/ FormatQuestion

Spec == Init /\ [][Next]_vars

(***************************************************************************)
(* Properties of the rendering of one question.                            *)
(***************************************************************************)
IsMark(piece) == piece.kind = "mark"
MarkPieces(out) == SelectSeq(out, IsMark)

\* The n of a marker $^{n}$
MarkNumber(piece) == StrToNat(SubSeq(piece.s, 4, Len(piece.s) - 2))
MarkNumbers(out) ==
    [k \in 1..Len(MarkPieces(out)) |-> MarkNumber(MarkPieces(out)[k])]

StrictlyIncreasing(ns) == \A i, j \in 1..Len(ns) : i < j => ns[i] < ns[j]

\* The footnotes are numbered 1, 2, ..., k.
NumberedOneTo(notes, k) ==
    /\ Len(notes) = k
    /\ \A i \in 1..Len(notes) : notes[i].number = i

VersedCount(ss) == Cardinality({i \in 1..Len(ss) : ss[i].verses # <<>>})
RenderedVersedCount(ss) ==
    Cardinality({i \in 1..Len(ss) : ss[i].verses # <<>> /\ ss[i].text # <<>>})

\* text starts with digits, a dot and white space
StartsNumberDot(text) ==
    \E d \in 1..Len(text) :
        /\ d + 2 <= Len(text)
        /\ \A i \in 1..d : text[i] \in Digits
        /\ text[d + 1] = "."
        /\ text[d + 2] \in Whitespace

\* text starts with digits, a dot, white space, "From" and white space
StartsNumberDotFrom(text) ==
    \E d \in 1..Len(text) :
        /\ d + 2 <= Len(text)
        /\ \A i \in 1..d : text[i] \in Digits
        /\ text[d + 1] = "."
        /\ \E w \in 1..(Len(text) - d - 1) :
              /\ \A i \in (d + 2)..(d + 1 + w) : text[i] \in Whitespace
              /\ d + 6 + w <= Len(text)
              /\ SubSeq(text, d + 2 + w, d + 5 + w) = <<"F", "r", "o", "m">>
              /\ text[d + 6 + w] \in Whitespace

FromCount(ss) ==
    Cardinality({i \in 1..Len(ss) :
        ss[i].text # <<>> /\ StartsNumberDotFrom(ss[i].text)})
EnumCount(ss) ==
    Cardinality({i \in 1..Len(ss) :
        ss[i].text # <<>> /\ StartsNumberDot(ss[i].text)})

NonEmptyText(section) == section.text # <<>>
WithoutEmptyText(ss) == SelectSeq(ss, NonEmptyText)

\* C1 as claimed: after process_answer the footnotes are numbered 1..k, k the
\* number of the question's sections with non-empty verses.
C1_NumberedByVerses ==
    mode # "none" => NumberedOneTo(footnotes, VersedCount(arg))

\* C1 amended: in every mode and after any earlier call, the footnotes
\* process_answer returns are numbered 1..k without gap or repeat, k the number
\* of sections with non-empty verses whose text is non-empty when the body is
\* rendered (in hierarchical mode, after the intro has been cut out of it).
C1_NumberedByRenderedVerses ==
    mode # "none" =>
        NumberedOneTo(footnotes, RenderedVersedCount(question.sections))

C1_Witness ==
    /\ mode = "list"
    /\ Len(footnotes) >= 2
    /\ \E i \in 1..Len(arg) : arg[i].text = <<>> /\ arg[i].verses # <<>>

\* C2: a section with empty verses gets no footnote marker and no Footnote,
\* in every mode of the LaTeX and the Markdown pipeline: every marker belongs
\* to a section with verses, and the footnotes are those markers' verses.
C2_NoFootnoteWithoutVerses ==
    /\ mode # "none" =>
          /\ \A k \in 1..Len(latex) :
                latex[k].kind = "mark" =>
                    question.sections[latex[k].sec].verses # <<>>
          /\ Len(footnotes) = Len(MarkPieces(latex))
          /\ \A k \in 1..Len(footnotes) :
                /\ footnotes[k].verses # <<>>
                /\ footnotes[k].verses =
                       question.sections[MarkPieces(latex)[k].sec].verses
    /\ md_mode # "none" =>
          /\ \A k \in 1..Len(markdown) :
                markdown[k].kind = "mark" =>
                    loaded.sections[markdown[k].sec].verses # <<>>
          /\ Len(md_footnotes) = Len(MarkPieces(markdown))
          /\ \A k \in 1..Len(md_footnotes) :
                /\ md_footnotes[k].verses # <<>>
                /\ md_footnotes[k].verses =
                       loaded.sections[MarkPieces(markdown)[k].sec].verses

C2_Witness ==
    /\ mode = "hierarchical"
    /\ md_mode # "none"
    /\ Len(footnotes) >= 3
    /\ \E i \in 1..Len(arg) :
          /\ arg[i].verses = <<>>
          /\ \E k \in 1..Len(latex) : latex[k].sec = i /\ latex[k].kind = "text"
          /\ \E k \in 1..Len(markdown) :
                markdown[k].sec = i /\ markdown[k].kind = "text"

\* C3: process_answer takes exactly one branch: hierarchical when three or
\* more sections start with "<number>. From ", else list when the list
\* detector accepts, else plain; so never hierarchical with two such sections
\* and never list or plain with three.
C3_ModePriority ==
    mode # "none" =>
        /\ mode \in {"hierarchical", "list", "plain"}
        /\ mode = "hierarchical" <=> FromCount(arg) >= 3
        /\ mode = "list" <=> (FromCount(arg) < 3 /\ detect_list_sections(arg))
        /\ mode = "plain" <=> (FromCount(arg) < 3 /\ ~detect_list_sections(arg))

C3_Witness ==
    /\ mode = "hierarchical"
    /\ FromCount(arg) = 3
    /\ detect_list_sections(arg)

\* C4: format_question renders in list mode exactly when three or more
\* sections with non-empty text start with "<number>. ".
C4_ListFromThree ==
    md_mode # "none" =>
        (md_mode = "list" <=> EnumCount(loaded.sections) >= 3)

C4_Witness ==
    /\ md_mode = "list"
    /\ EnumCount(loaded.sections) = 3
    /\ Len(loaded.sections) > 3

\* C5: a section with empty text is skipped in every mode: the mode, the
\* text and the footnotes are those of the same sections without the
\* empty-text ones, and no piece of the output comes from such a section.
C5_EmptyTextSkipped ==
    /\ mode # "none" =>
          /\ \E r \in {process_answer(WithoutEmptyText(arg))} :
                /\ r.mode = mode
                /\ Flat(r.latex) = Flat(latex)
                /\ r.footnotes = footnotes
          /\ \A k \in 1..Len(latex) :
                latex[k].sec # 0 => arg[latex[k].sec].text # <<>>
    /\ md_mode # "none" =>
          /\ \E r \in {format_question(
                          [loaded EXCEPT !.sections = WithoutEmptyText(@)])} :
                /\ r.mode = md_mode
                /\ Flat(r.markdown) = Flat(markdown)
                /\ r.footnotes = md_footnotes
          /\ \A k \in 1..Len(markdown) :
                markdown[k].sec # 0 =>
                    loaded.sections[markdown[k].sec].text # <<>>

C5_Witness ==
    /\ mode = "hierarchical"
    /\ md_mode = "list"
    /\ \E i \in 1..Len(arg) : arg[i].text = <<>> /\ arg[i].verses # <<>>

\* Markers of intro sections come before, and carry smaller numbers than,
\* markers of list items; items is the set of indices of the list items.
IntroBeforeItems(out, items) ==
    \A a, b \in 1..Len(out) :
        (/\ out[a].kind = "mark"
         /\ out[b].kind = "mark"
         /\ out[a].sec \notin items
         /\ out[b].sec \in items) =>
            /\ a < b
            /\ MarkNumber(out[a]) < MarkNumber(out[b])

TexItem(text) == StartsNumberDot(text) \/ is_bracketed_list_item(text)
TexItems(ss) == {i \in 1..Len(ss) : TexItem(ss[i].text)}
MdItems(ss) == {i \in 1..Len(ss) : StartsNumberDot(ss[i].text)}

\* C6: in list mode the intro sections are numbered first and the list items
\* go on from there: the markers are strictly increasing through the output,
\* and the footnote list carries the same numbers in the same order.
C6_ListNumbering ==
    /\ mode = "list" =>
          /\ StrictlyIncreasing(MarkNumbers(latex))
          /\ MarkNumbers(latex) = [k \in 1..Len(footnotes) |-> footnotes[k].number]
          /\ IntroBeforeItems(latex, TexItems(arg))
    /\ md_mode = "list" =>
          /\ StrictlyIncreasing(MarkNumbers(markdown))
          /\ MarkNumbers(markdown) =
                 [k \in 1..Len(md_footnotes) |-> md_footnotes[k].number]
          /\ IntroBeforeItems(markdown, MdItems(loaded.sections))

C6_Witness ==
    /\ mode = "list"
    /\ md_mode = "list"
    /\ \E i, j, k \in 1..Len(arg) :
          /\ i < j /\ j < k
          /\ StartsNumberDot(arg[i].text) /\ arg[i].verses # <<>>
          /\ arg[j].text # <<>> /\ ~TexItem(arg[j].text) /\ arg[j].verses # <<>>
          /\ StartsNumberDot(arg[k].text) /\ arg[k].verses # <<>>

(***************************************************************************)
(* process_files, sort_questions and the order generate_latex iterates in. *)
(* A dict is the sequence of its items in insertion order.                 *)
(***************************************************************************)
Record(id, q) == [id |-> id, question |-> q]

\* DictSet that keeps the question already stored under the id.
DictSetKeepFirst(d, q) ==
    IF \E i \in 1..Len(d) : d[i].id = q.id THEN d ELSE Append(d, q)

\* all_questions[question.id] = question
DictSet(d, q) ==
    LET at == {i \in 1..Len(d) : d[i].id = q.id}
    IN IF at = {} THEN Append(d, q)
       ELSE [i \in 1..Len(d) |-> IF i \in at THEN q ELSE d[i]]

\* for question in questions: all_questions[question.id] = question
RECURSIVE DictUpdate(_, _)
DictUpdate(d, questions) ==
    IF questions = <<>> THEN d
    ELSE DictUpdate(DictSet(d, Head(questions)), Tail(questions))

\* q_id.replace('.', '', 1)
WithoutFirstDot(id) ==
    IF Find(id, <<".">>) = 0 THEN id
    ELSE SubSeq(id, 1, Find(id, <<".">>) - 1)
         \o SubSeq(id, Find(id, <<".">>) + 1, Len(id))

\* str.isdigit()
isdigit(s) == s # <<>> /\ \A i \in 1..Len(s) : s[i] \in Digits

RECURSIVE Pow10(_)
Pow10(n) == IF n = 0 THEN 1 ELSE 10 * Pow10(n - 1)

\* float(q_id) as the exact fraction num / 10^exp
FloatOf(id) ==
    [kind |-> "float",
     num |-> StrToNat(WithoutFirstDot(id)),
     exp |-> IF Find(id, <<".">>) = 0 THEN 0 ELSE Len(id) - Find(id, <<".">>)]

\* sort_key without the float conversion: every id is compared as text.
sort_key_as_text(id) == [kind |-> "str", s |-> id]

\* float(q_id) if q_id.replace('.', '', 1).isdigit() else q_id
sort_key(id) ==
    IF isdigit(WithoutFirstDot(id)) THEN FloatOf(id)
    ELSE [kind |-> "str", s |-> id]

\* ord(c) for the characters ids are written with
CodePoint(c) ==
    CASE c = "." -> 46 [] c = "a" -> 97 [] c = "b" -> 98
      [] c \in Digits -> 48 + DigitVal(c)

RECURSIVE StrLess(_, _)
StrLess(a, b) ==
    IF b = <<>> THEN FALSE
    ELSE IF a = <<>> THEN TRUE
    ELSE IF Head(a) = Head(b) THEN StrLess(Tail(a), Tail(b))
    ELSE CodePoint(Head(a)) < CodePoint(Head(b))

\* a < b for two keys of the same type
KeyLess(a, b) ==
    IF a.kind = "float" THEN a.num * Pow10(b.exp) < b.num * Pow10(a.exp)
    ELSE StrLess(a.s, b.s)

\* '<' between a float and a str raises TypeError; sorting two or more keys
\* compares every key with another one, so a mixed list always raises.
RaisesTypeError(keys) ==
    \E i, j \in 1..Len(keys) : keys[i].kind # keys[j].kind

ItemKey(item) == sort_key(item.id)

\* Stable insertion of x: after every item whose key is not greater.
RECURSIVE InsertByKey(_, _)
InsertByKey(sorted, x) ==
    IF sorted = <<>> THEN <<x>>
    ELSE IF KeyLess(ItemKey(x), ItemKey(Head(sorted))) THEN <<x>> \o sorted
    ELSE <<Head(sorted)>> \o InsertByKey(Tail(sorted), x)

RECURSIVE SortByKey(_)
SortByKey(items) ==
    IF items = <<>> THEN <<>>
    ELSE InsertByKey(SortByKey(SubSeq(items, 1, Len(items) - 1)),
                     items[Len(items)])

\* sorted(questions.items(), key=sort_key): the list, or raised
sorted_items(questions) ==
    IF RaisesTypeError([i \in 1..Len(questions) |-> ItemKey(questions[i])])
    THEN [raised |-> TRUE, items |-> <<>>]
    ELSE [raised |-> FALSE, items |-> SortByKey(questions)]

\* OrderedDict(sorted(questions.items(), key=sort_key))
sort_questions(questions) == sorted_items(questions)

\* sorted(questions.items(), key=lambda x: float(x[0]) if ... else x[0])
generate_latex_order(questions) == sorted_items(questions)

\* What load_toml_file returns for the files of the source directory; an
\* unreadable or malformed file gives [].
Q_A == <<"A">>
Q_B == <<"B">>
Files ==
    {<<>>,
     <<Record(<<"2">>, Q_A), Record(<<"1", "0">>, Q_A)>>,
     <<Record(<<"1", ".", "5">>, Q_A), Record(<<"1">>, Q_A)>>,
     <<Record(<<"1">>, Q_B)>>,
     <<Record(<<"1", ".", "0">>, Q_A), Record(<<"2">>, Q_B)>>,
     <<Record(<<"1", "0">>, Q_B), Record(<<"1", "0">>, Q_A)>>,
     <<Record(<<"a">>, Q_A)>>,
     <<Record(<<"b">>, Q_A), Record(<<"a">>, Q_B)>>}

NoRender ==
    /\ loaded = [id |-> <<>>, question |-> <<>>, sections |-> <<>>]
    /\ question = loaded
    /\ arg = <<>>
    /\ mode = "none"
    /\ latex = <<>>
    /\ footnotes = <<>>
    /\ md_mode = "none"
    /\ markdown = <<>>
    /\ md_footnotes = <<>>

InitFiles ==
    /\ file_paths \in SeqsUpTo(Files, MaxFiles)
    /\ all_questions = <<>>
    /\ history = <<>>
    /\ pc = "loading"
    /\ result = <<>>
    /\ tex_order = <<>>
    /\ NoRender
    /\ NoUrl

\* process_files: one pass of "for file_path in file_paths"
LoadFile ==
    /\ pc = "loading"
    /\ file_paths # <<>>
    /\ all_questions' = DictUpdate(all_questions, Head(file_paths))
    /\ history' = history \o Head(file_paths)
    /\ file_paths' = Tail(file_paths)
    /\ UNCHANGED <<pc, result, tex_order>>
    /\ UNCHANGED renderVars
    /\ UNCHANGED urlVars

\* process_files: return sort_questions(all_questions)
SortQuestions ==
    /\ pc = "loading"
    /\ file_paths = <<>>
    /\ \E r \in {sort_questions(all_questions)} :
          /\ pc' = IF r.raised THEN "TypeError" ELSE "sorted"
          /\ result' = r.items
    /\ UNCHANGED <<file_paths, all_questions, history, tex_order>>
    /\ UNCHANGED renderVars
    /\ UNCHANGED urlVars

\* generate_latex: the order of "for q_id, question in sorted(...)"
GenerateLatex ==
    /\ pc = "sorted"
    /\ \E r \in {generate_latex_order(result)} :
          /\ pc' = IF r.raised THEN "TypeError" ELSE "generated"
          /\ tex_order' = r.items
    /\ UNCHANGED <<file_paths, all_questions, history, result>>
    /\ UNCHANGED renderVars
    /\ UNCHANGED urlVars

NextFiles ==
    \/ LoadFile
    \/ SortQuestions
    \/ GenerateLatex

SpecFiles == InitFiles /\ [][NextFiles]_vars

(***************************************************************************)
(* Properties of loading and sorting.                                      *)
(***************************************************************************)
Ids(d) == [i \in 1..Len(d) |-> d[i].id]

\* id is written with digits and at most one dot
NumericId(id) ==
    /\ \A i \in 1..Len(id) : id[i] \in Digits \cup {"."}
    /\ Cardinality({i \in 1..Len(id) : id[i] = "."}) <= 1
    /\ \E i \in 1..Len(id) : id[i] \in Digits

AllNumeric(d) == \A i \in 1..Len(d) : NumericId(d[i].id)
MixedIds(d) ==
    /\ \E i \in 1..Len(d) : NumericId(d[i].id)
    /\ \E i \in 1..Len(d) : ~NumericId(d[i].id)

\* Digits of id after its dot
Fraction(id) ==
    IF Find(id, <<".">>) = 0 THEN <<>>
    ELSE SubSeq(id, Find(id, <<".">>) + 1, Len(id))
Whole(id) ==
    IF Find(id, <<".">>) = 0 THEN id ELSE SubSeq(id, 1, Find(id, <<".">>) - 1)

\* The value of a numeric id in units of 10^-k, for k >= Len(Fraction(id))
ValueIn(id, k) ==
    StrToNat(Whole(id)) * Pow10(k)
    + StrToNat(Fraction(id)) * Pow10(k - Len(Fraction(id)))

\* a is numerically at most b
NumLeq(a, b) ==
    ValueIn(a, Len(Fraction(a)) + Len(Fraction(b)))
        <= ValueIn(b, Len(Fraction(a)) + Len(Fraction(b)))

\* r holds every item of d exactly once
SameItems(r, d) ==
    /\ Len(r) = Len(d)
    /\ \A i \in 1..Len(d) :
          Cardinality({j \in 1..Len(r) : r[j] = d[i]}) = 1

NumericallyAscending(r) ==
    \A i, j \in 1..Len(r) : i < j => NumLeq(r[i].id, r[j].id)

ExampleIds == <<<<"2">>, <<"1", "0">>, <<"1", ".", "5">>, <<"1">>>>
ExampleSorted == <<<<"1">>, <<"1", ".", "5">>, <<"2">>, <<"1", "0">>>>

\* C7: when every id is numeric, sort_questions and the order generate_latex
\* iterates in hold every question once, ascending by the numeric value of
\* the id; ids "2", "10", "1.5", "1" come out as "1", "1.5", "2", "10".
C7_NumericOrder ==
    AllNumeric(all_questions) =>
        /\ pc # "TypeError"
        /\ pc \in {"sorted", "generated"} =>
              /\ SameItems(result, all_questions)
              /\ NumericallyAscending(result)
              /\ Ids(all_questions) = ExampleIds => Ids(result) = ExampleSorted
        /\ pc = "generated" =>
              /\ SameItems(tex_order, all_questions)
              /\ NumericallyAscending(tex_order)
              /\ Ids(all_questions) = ExampleIds => Ids(tex_order) = ExampleSorted

C7_Witness ==
    /\ pc = "generated"
    /\ Ids(all_questions) = ExampleIds

\* C8 as claimed: with numeric and non-numeric ids loaded together, sorting
\* completes and gives one order holding every question exactly once.
C8_MixedSortCompletes ==
    (file_paths = <<>> /\ pc # "loading" /\ MixedIds(all_questions)) =>
        /\ pc \in {"sorted", "generated"}
        /\ SameItems(result, all_questions)

LastIndexOf(id) == CHOOSE i \in 1..Len(history) :
    /\ history[i].id = id
    /\ \A j \in (i + 1)..Len(history) : history[j].id # id

\* C9: the question map holds one question per id, the one loaded last with
\* that id, for every id loaded; sorting keeps exactly these questions, and
\* no error state is entered because of a duplicate.
C9_LastLoadedWins ==
    /\ \A i, j \in 1..Len(all_questions) :
          all_questions[i].id = all_questions[j].id => i = j
    /\ {all_questions[i].id : i \in 1..Len(all_questions)}
           = {history[i].id : i \in 1..Len(history)}
    /\ \A i \in 1..Len(all_questions) :
          all_questions[i] = history[LastIndexOf(all_questions[i].id)]
    /\ pc \in {"sorted", "generated"} => SameItems(result, all_questions)
    /\ pc = "generated" => SameItems(tex_order, all_questions)
    /\ pc = "TypeError" => MixedIds(all_questions)

C9_Witness ==
    /\ pc = "sorted"
    /\ \E i, j \in 1..Len(history) :
          /\ i < j
          /\ history[i].id = history[j].id
          /\ history[i].question # history[j].question
          /\ j = LastIndexOf(history[j].id)

(***************************************************************************)
(* create_bible_url on its own.                                            *)
(***************************************************************************)
UrlAlphabet == {" ", ":", ";", ",", "+", "%", "J"}
V_Example == <<"1", " ", "J", "o", "h", "n", " ", "4", ":", "8">>
UrlInputs == SeqsUpTo(UrlAlphabet, MaxVerseLen) \cup {V_Example, V_John}

InitUrl ==
    /\ verses_in \in UrlInputs
    /\ url = <<>>
    /\ NoRender
    /\ NoFiles

\* bible_url = create_bible_url(footnote.verses)
CreateBibleUrl ==
    /\ url = <<>>
    /\ url' = create_bible_url(verses_in)
    /\ UNCHANGED verses_in
    /\ UNCHANGED renderVars
    /\ UNCHANGED fileVars

NextUrl == CreateBibleUrl

SpecUrl == InitUrl /\ [][NextUrl]_vars

(***************************************************************************)
(* Properties of create_bible_url.                                         *)
(***************************************************************************)
EncodeChar(c) ==
    CASE c = " " -> <<"+">>
      [] c = ":" -> <<"%", "3", "A">>
      [] c = ";" -> <<"%", "3", "B">>
      [] c = "," -> <<"%", "2", "C">>
      [] OTHER -> <<c>>

RECURSIVE EncodeEach(_)
EncodeEach(s) ==
    IF s = <<>> THEN <<>> ELSE EncodeChar(Head(s)) \o EncodeEach(Tail(s))

\* The part of the url between the prefix and "&version=ESV"
EncodedPart(u) == SubSeq(u, Len(UrlPrefix) + 1, Len(u) - Len(UrlSuffix))

\* C10: create_bible_url returns the prefix, the verses with ' ', ':', ';'
\* and ',' replaced by '+', '%3A', '%3B' and '%2C' and every other character
\* kept, and "&version=ESV"; the encoded part holds none of the four
\* characters, and "1 John 4:8" gives "1+John+4%3A8".
C10_UrlEncoding ==
    url # <<>> =>
        /\ url = UrlPrefix \o EncodeEach(verses_in) \o UrlSuffix
        /\ \A i \in 1..Len(EncodedPart(url)) :
              EncodedPart(url)[i] \notin {" ", ":", ";", ","}
        /\ verses_in = V_Example =>
              EncodedPart(url) =
                  <<"1", "+", "J", "o", "h", "n", "+", "4", "%", "3", "A", "8">>

C10_Witness ==
    /\ url # <<>>
    /\ verses_in = V_Example

(***************************************************************************)
(* The Markdown script on a question with many verse references.           *)
(***************************************************************************)
\* The verses of the i-th section: each section carries its own reference.
V_Ref(i) == <<"J", " ">> \o NatToStr(i)

\* n sections, each with one verse reference, plain or enumerated text.
RECURSIVE VersedSections(_)
VersedSections(n) ==
    IF n = 0 THEN {<<>>}
    ELSE {Append(ss, Section(t, V_Ref(n))) :
              ss \in VersedSections(n - 1), t \in {T_Plain, T_Enum}}

TableQuestions ==
    {[id |-> <<"1">>, question |-> <<"Q">>, sections |-> ss] :
        ss \in UNION {VersedSections(n) : n \in 6..MaxTableRefs}}

InitTable ==
    /\ loaded \in TableQuestions
    /\ question = loaded
    /\ arg = <<>>
    /\ mode = "none"
    /\ latex = <<>>
    /\ footnotes = <<>>
    /\ md_mode = "none"
    /\ markdown = <<>>
    /\ md_footnotes = <<>>
    /\ NoFiles
    /\ NoUrl

NextTable == FormatQuestion

SpecTable == InitTable /\ [][NextTable]_vars

(***************************************************************************)
(* The reference table of a question with six or more references.          *)
(***************************************************************************)
TableColumns(n) == IF n <= 15 THEN 2 ELSE IF n <= 25 THEN 3 ELSE 4
TableRows(n) == (n + TableColumns(n) - 1) \div TableColumns(n)

\* The reference in row r of column c when filled column by column, 0 for a
\* blank cell.
TableCell(n, r, c) ==
    IF (c - 1) * TableRows(n) + r <= n THEN (c - 1) * TableRows(n) + r ELSE 0

\* The verses of the filled cells of row r, in column order.
TableRow(notes, r) ==
    LET n == Len(notes)
        filled == SelectSeq([c \in 1..TableColumns(n) |-> TableCell(n, r, c)],
                            LAMBDA k : k # 0)
    IN [j \in 1..Len(filled) |-> notes[filled[j]].verses]

\* The lines of a str.
Lines(s) ==
    {SubSeq(s, a, b) : <<a, b>> \in
        {ab \in (1..Len(s)) \X (1..Len(s)) :
            /\ ab[1] <= ab[2]
            /\ \A i \in ab[1]..ab[2] : s[i] # "\n"
            /\ ab[1] = 1 \/ s[ab[1] - 1] = "\n"
            /\ ab[2] = Len(s) \/ s[ab[2] + 1] = "\n"}}

\* The strs of cells occur in line one after the other.
RECURSIVE InOrder(_, _)
InOrder(line, cells) ==
    IF cells = <<>> THEN TRUE
    ELSE LET p == Find(line, Head(cells))
         IN /\ p # 0
            /\ InOrder(SubSeq(line, p + Len(Head(cells)), Len(line)), Tail(cells))

NotRef(piece) == piece.kind # "ref"
\* The output apart from the numbered reference list.
BesideReferenceList(out) == Flat(SelectSeq(out, NotRef))

\* C11: a Markdown question with six or more references has, beside the
\* numbered reference list, a table of 2 columns (at most 15 references),
\* 3 (at most 25) or 4, filled column by column with blank cells in a short
\* last column: every row of the table is a line of the output holding that
\* row's references in column order.  With 7 references these are the 4 rows
\* (1, 5), (2, 6), (3, 7) and (4, blank).
C11_VerseTable ==
    (md_mode # "none" /\ Len(md_footnotes) >= 6) =>
        \A r \in 1..TableRows(Len(md_footnotes)) :
            \E line \in Lines(BesideReferenceList(markdown)) :
                InOrder(line, TableRow(md_footnotes, r))

(***************************************************************************)
(* process_answer called again and again on one Question object, on        *)
(* questions with numbered "From" sections and the intro marker.           *)
(***************************************************************************)
T_HarmfulRest == <<"a", " ">> \o HarmfulMarker \o <<" ", "d">>
T_HarmfulTwice == HarmfulMarker \o <<" ">> \o HarmfulMarker \o <<" ", "e">>

HierSections ==
    {Section(T_From, V_John), Section(T_Harmful, V_John),
     Section(T_HarmfulRest, V_John), Section(T_HarmfulTwice, <<>>),
     Section(T_Enum, <<>>)}

HierQuestions ==
    {[id |-> <<"1">>, question |-> <<"Q">>, sections |-> ss] :
        ss \in SeqsUpTo(HierSections, MaxHierSections)}

InitRepeat ==
    /\ loaded \in HierQuestions
    /\ question = loaded
    /\ arg = <<>>
    /\ mode = "none"
    /\ latex = <<>>
    /\ footnotes = <<>>
    /\ md_mode = "none"
    /\ markdown = <<>>
    /\ md_footnotes = <<>>
    /\ NoFiles
    /\ NoUrl

NextRepeat == ProcessAnswer

SpecRepeat == InitRepeat /\ [][NextRepeat]_vars

(***************************************************************************)
(* What process_answer does to the sections it is given.                   *)
(***************************************************************************)
HasMarker(section) == Find(section.text, HarmfulMarker) # 0

\* 0, or the index of the first section whose text contains the marker
FirstMarked(ss) ==
    IF \E i \in 1..Len(ss) : HasMarker(ss[i])
    THEN CHOOSE i \in 1..Len(ss) :
             HasMarker(ss[i]) /\ \A j \in 1..(i - 1) : ~HasMarker(ss[j])
    ELSE 0

\* text without its part up to and including the first marker
AfterMarker(text) ==
    SubSeq(text, Find(text, HarmfulMarker) + Len(HarmfulMarker), Len(text))

\* text up to and including the first marker
LeadingPart(text) ==
    SubSeq(text, 1, Find(text, HarmfulMarker) + Len(HarmfulMarker) - 1)

SameVerses(before, after) ==
    /\ Len(after) = Len(before)
    /\ \A i \in 1..Len(before) : after[i].verses = before[i].verses

SameTextExcept(before, after, k) ==
    \A i \in 1..Len(before) : i # k => after[i].text = before[i].text

\* C12 as claimed: process_answer changes nothing but, in hierarchical mode,
\* the text of the first section containing the marker, which loses its part
\* up to and including the marker and keeps the rest as it is.
C12_OnlyIntroRemoved ==
    mode # "none" =>
        /\ SameVerses(arg, question.sections)
        /\ IF mode = "hierarchical" /\ FirstMarked(arg) # 0
           THEN /\ SameTextExcept(arg, question.sections, FirstMarked(arg))
                /\ question.sections[FirstMarked(arg)].text =
                       AfterMarker(arg[FirstMarked(arg)].text)
           ELSE SameTextExcept(arg, question.sections, 0)

\* C12 amended: the same frame, and the one changed text is the old text with
\* every occurrence of its leading part (up to and including the first
\* marker) removed and the surrounding white space stripped.
C12_OnlyIntroRemovedAndStripped ==
    mode # "none" =>
        /\ SameVerses(arg, question.sections)
        /\ IF mode = "hierarchical" /\ FirstMarked(arg) # 0
           THEN /\ SameTextExcept(arg, question.sections, FirstMarked(arg))
                /\ question.sections[FirstMarked(arg)].text =
                       Strip(Replace(arg[FirstMarked(arg)].text,
                                     LeadingPart(arg[FirstMarked(arg)].text),
                                     <<>>))
           ELSE SameTextExcept(arg, question.sections, 0)

\* A hierarchical call that changed its first marked section and left a
\* second marked section alone.
C12_Witness ==
    /\ mode = "hierarchical"
    /\ FirstMarked(arg) # 0
    /\ question.sections[FirstMarked(arg)].text # arg[FirstMarked(arg)].text
    /\ \E j \in 1..Len(arg) :
          j # FirstMarked(arg) /\ HasMarker(arg[j]) /\ question.sections[j] = arg[j]

\* C13: a second call of process_answer on the same Question object returns
\* the same answer text and the same footnotes as the call before it.
C13_Repeatable ==
    [][mode # "none" => (Flat(latex') = Flat(latex) /\ footnotes' = footnotes)]_vars

(***************************************************************************)
(* The footnotes of the two pipelines for one question.                    *)
(***************************************************************************)
\* The footnote number each section's marker carries in an output.
NumberOfSection(out) ==
    {<<MarkPieces(out)[k].sec, MarkNumber(MarkPieces(out)[k])>> :
        k \in 1..Len(MarkPieces(out))}

\* C14: for the same section sequence process_answer and format_question
\* return the same footnote list, and every section with a footnote carries
\* the same footnote number in the LaTeX and in the Markdown output, also
\* when three or more sections start with '<number>. From '.
C14_SameFootnotes ==
    (mode # "none" /\ md_mode # "none" /\ arg = loaded.sections) =>
        /\ footnotes = md_footnotes
        /\ NumberOfSection(latex) = NumberOfSection(markdown)

====
